---------------------------- MODULE Spec2Model ----------------------------
(***************************************************************************)
(* CardiaStrain: the frame-to-frame motion-estimation and strain /         *)
(* ejection-fraction engine (src/utils/motion.ts) and the biplane          *)
(* orchestrator that drives it (src/App.tsx).                              *)
(*                                                                         *)
(* Numbers.  Areas, ejection fractions and progress are exact extended     *)
(* rationals [n, d] (d = 0 encodes +Infinity, -Infinity and NaN the way    *)
(* IEEE does: 1/0, -1/0, 0/0).  Strain needs a square root: it is carried  *)
(* in hundredths of a percent, truncated.  Time is counted in frame        *)
(* periods: the integer t stands for video.currentTime = t / FPS.          *)
(*                                                                         *)
(* Geometry.  The 600 x 450 canvas, the 14-pixel block, the 28-pixel       *)
(* search window, the 18-pixel detection step and the 50-pixel default     *)
(* margin are scaled down so that rasters can be enumerated; the scale of  *)
(* each is written in its definition.  Parities that the code depends on   *)
(* (even block, even half search window) are kept.  A raster is its first  *)
(* (red) channel: enhanceContrast writes the same value to red, green and  *)
(* blue and every consumer reads the red channel only.                     *)
(***************************************************************************)
EXTENDS Integers, Sequences, FiniteSets, TLC

-----------------------------------------------------------------------------
(* Arithmetic helpers *)

Abs(a) == IF a < 0 THEN -a ELSE a

Sign(a) == IF a < 0 THEN -1 ELSE IF a > 0 THEN 1 ELSE 0

MinInt(a, b) == IF a < b THEN a ELSE b

MaxInt(a, b) == IF a > b THEN a ELSE b

RECURSIVE GCD(_, _)
GCD(a, b) == IF b = 0 THEN a ELSE GCD(b, a % b)

(* floor of the square root, by bisection on [lo, hi) *)
RECURSIVE SqrtBetween(_, _, _)
SqrtBetween(n, lo, hi) ==
    IF hi - lo <= 1 THEN lo
    ELSE LET mid == (lo + hi) \div 2
         IN  IF mid * mid <= n THEN SqrtBetween(n, mid, hi)
                               ELSE SqrtBetween(n, lo, mid)

ISqrt(n) == SqrtBetween(n, 0, MinInt(n, 46340) + 1)

(* n/d rounded to the nearest integer, ties to even: the conversion a       *)
(* Uint8ClampedArray applies to a stored number (n >= 0, d > 0)            *)
RoundHalfEven(n, d) ==
    LET q == n \div d
        r == n % d
    IN  IF 2 * r < d THEN q
        ELSE IF 2 * r > d THEN q + 1
        ELSE IF q % 2 = 0 THEN q ELSE q + 1

Clamp8(v) == IF v < 0 THEN 0 ELSE IF v > 255 THEN 255 ELSE v

-----------------------------------------------------------------------------
(* Extended rationals: the JavaScript numbers the engine stores *)

Rat(n, d) ==
    IF d = 0 THEN [n |-> Sign(n), d |-> 0]
    ELSE LET g == GCD(Abs(n), Abs(d))
         IN  [n |-> Sign(d) * (n \div g), d |-> Abs(d) \div g]

Num(i) == [n |-> i, d |-> 1]

Infinity == [n |-> 1, d |-> 0]

IsNaN(a) == a.n = 0 /\ a.d = 0

IsFinite(a) == a.d # 0

RAdd(a, b) ==
    IF a.d = 0 /\ b.d = 0 THEN (IF a.n = b.n THEN a ELSE Rat(0, 0))
    ELSE Rat(a.n * b.d + b.n * a.d, a.d * b.d)

RNeg(a) == [n |-> -a.n, d |-> a.d]

RSub(a, b) == RAdd(a, RNeg(b))

RMul(a, b) == Rat(a.n * b.n, a.d * b.d)

RDiv(a, b) ==
    IF b.n < 0 THEN Rat(-(a.n * b.d), a.d * (-b.n)) ELSE Rat(a.n * b.d, a.d * b.n)

RLt(a, b) == ~IsNaN(a) /\ ~IsNaN(b) /\ a # b /\ a.n * b.d < b.n * a.d

RLe(a, b) == ~IsNaN(a) /\ ~IsNaN(b) /\ (a = b \/ a.n * b.d < b.n * a.d)

(* a faulty Math.max: the latest value replaces the running one *)
MathMaxLatest(a, b) == b

(* Math.max / Math.min of two numbers *)
MathMax(a, b) == IF IsNaN(a) \/ IsNaN(b) THEN Rat(0, 0) ELSE IF RLt(a, b) THEN b ELSE a

MathMin(a, b) == IF IsNaN(a) \/ IsNaN(b) THEN Rat(0, 0) ELSE IF RLt(b, a) THEN b ELSE a

-----------------------------------------------------------------------------
(* Geometry of the logical frame (scaled) *)

Width == 600 \div 75

Height == 450 \div 75

TrackBlockSize == 14 \div 7

TrackSearchWindow == 28 \div 7

threshold == 130

step == 18 \div 6

DefaultMargin == 50 \div 50

MaskThreshold == 75

HistoryCap == 100

(* a faulty order of the views: a2c first *)
ViewsSwapped == <<"a2c", "a4c">>

Views == <<"a4c", "a2c">>

ViewSet == {"a4c", "a2c"}

Pixels == 0 .. (Width * Height - 1)

PixelAt(raster, x, y) == raster[y * Width + x]

BlankRaster == [i \in Pixels |-> 0]

Null == [null |-> TRUE]

Vec(x, y) == [x |-> x, y |-> y]

-----------------------------------------------------------------------------
(* src/utils/motion.ts *)

MinOf(S) == CHOOSE m \in S : \A o \in S : m <= o

MaxOf(S) == CHOOSE m \in S : \A o \in S : m >= o

(* a faulty stretch: scaled by the maximum alone, the minimum not removed *)
enhanceContrastByMax(data) ==
    LET max == MaxOf({data[i] : i \in Pixels} \cup {0})
        range == IF max = 0 THEN 1 ELSE max
    IN  [i \in Pixels |-> Clamp8(RoundHalfEven(data[i] * 255, range))]

(* The linear contrast stretch.  min starts at 255 and max at 0, range is  *)
(* max - min || 1, and each stored sample is rounded by the clamped array. *)
enhanceContrast(data) ==
    LET min == MinOf({data[i] : i \in Pixels} \cup {255})
        max == MaxOf({data[i] : i \in Pixels} \cup {0})
        range == IF max - min = 0 THEN 1 ELSE max - min
    IN  [i \in Pixels |-> Clamp8(RoundHalfEven((data[i] - min) * 255, range))]

(* The order Math.atan2 gives to the direction of the vector (vx, vy):     *)
(* atan2 is in (-pi, pi], 0 for the zero vector, pi on the negative x axis *)
AngleClass(vx, vy) ==
    IF vy < 0 THEN 0
    ELSE IF vy > 0 THEN 2
    ELSE IF vx >= 0 THEN 1 ELSE 3

AngleLess(ux, uy, vx, vy) ==
    LET cu == AngleClass(ux, uy)
        cv == AngleClass(vx, vy)
    IN  IF cu # cv THEN cu < cv
        ELSE IF cu \in {1, 3} THEN FALSE
        ELSE ux * vy - uy * vx > 0

RECURSIVE SumSeq(_)
SumSeq(s) == IF s = <<>> THEN 0 ELSE Head(s) + SumSeq(Tail(s))

(* [...points].sort(by atan2 about the centroid): a stable sort.  The      *)
(* centroid is (sx / n, sy / n); comparing the directions of               *)
(* (n * x - sx, n * y - sy) compares the same angles.                      *)
RECURSIVE InsertByAngle(_, _, _, _, _)
InsertByAngle(sorted, p, n, sx, sy) ==
    IF sorted = <<>> THEN <<p>>
    ELSE LET last == sorted[Len(sorted)]
         IN  IF AngleLess(n * p.x - sx, n * p.y - sy, n * last.x - sx, n * last.y - sy)
             THEN Append(InsertByAngle(SubSeq(sorted, 1, Len(sorted) - 1), p, n, sx, sy), last)
             ELSE Append(sorted, p)

RECURSIVE SortByAngle(_, _, _, _)
SortByAngle(points, n, sx, sy) ==
    IF points = <<>> THEN <<>>
    ELSE InsertByAngle(SortByAngle(SubSeq(points, 1, Len(points) - 1), n, sx, sy),
                       points[Len(points)], n, sx, sy)

(* a faulty area: that of the bounding box of the points *)
calculateAreaOfBox(points) ==
    IF Len(points) = 0 THEN Num(0)
    ELSE LET xs == { points[i].x : i \in 1 .. Len(points) }
             ys == { points[i].y : i \in 1 .. Len(points) }
         IN  Num((MaxOf(xs) - MinOf(xs) + 1) * (MaxOf(ys) - MinOf(ys) + 1))

calculateArea(points) ==
    IF Len(points) < 3 THEN Num(0)
    ELSE LET n == Len(points)
             sx == SumSeq([i \in 1 .. n |-> points[i].x])
             sy == SumSeq([i \in 1 .. n |-> points[i].y])
             sorted == SortByAngle(points, n, sx, sy)
             area == SumSeq([i \in 1 .. n |->
                        LET j == (i % n) + 1
                        IN  sorted[i].x * sorted[j].y - sorted[j].x * sorted[i].y])
         IN  Rat(Abs(area), 2)

(* The Sobel overlay.  The mask is the colour it paints with and the alpha *)
(* of each pixel; a pixel of alpha 0 is left <<0, 0, 0, 0>>.               *)
kernelX == <<-1, 0, 1, -2, 0, 2, -1, 0, 1>>

kernelY == <<-1, -2, -1, 0, 0, 0, 1, 2, 1>>

SobelSquared(input, x, y) ==
    LET gx == SumSeq([k \in 1 .. 9 |->
                 PixelAt(input, x + ((k - 1) % 3) - 1, y + ((k - 1) \div 3) - 1) * kernelX[k]])
        gy == SumSeq([k \in 1 .. 9 |->
                 PixelAt(input, x + ((k - 1) % 3) - 1, y + ((k - 1) \div 3) - 1) * kernelY[k]])
    IN  gx * gx + gy * gy

(* Math.min(255, mag * 2.2) as the clamped array stores it:                *)
(* round(2.2 * sqrt(m2)) = floor((sqrt(1936 * m2) + 10) / 20)              *)
MaskAlpha(m2) ==
    IF m2 >= 13437 THEN 255 ELSE MinInt(255, (ISqrt(1936 * m2) + 10) \div 20)

createDiagnosticMask(input, width, height, strainValue, roi) ==
    LET r == IF strainValue < -1500 THEN 34 ELSE 239
        g == IF strainValue < -1500 THEN 197 ELSE 68
        b == IF strainValue < -1500 THEN 94 ELSE 68
        minX == IF roi # Null THEN roi.x ELSE 0
        minY == IF roi # Null THEN roi.y ELSE 0
        maxX == IF roi # Null THEN roi.x + roi.w ELSE width
        maxY == IF roi # Null THEN roi.y + roi.h ELSE height
    IN  [rgb |-> <<r, g, b>>,
         alpha |-> [i \in Pixels |->
            LET x == i % width
                y == i \div width
            IN  IF x < 1 \/ x >= width - 1 \/ y < 1 \/ y >= height - 1 THEN 0
                ELSE IF x < minX \/ x > maxX \/ y < minY \/ y > maxY THEN 0
                ELSE LET m2 == SobelSquared(input, x, y)
                     IN  IF m2 > MaskThreshold * MaskThreshold THEN MaskAlpha(m2) ELSE 0]]

(* Grid sampling of the frame inside the ROI, row-major.                   *)
GridCount(lo, hi) == IF hi <= lo THEN 0 ELSE (hi - lo + step - 1) \div step

autoDetectWalls(imgData, width, height, roi) ==
    LET minX == IF roi # Null THEN MaxInt(0, roi.x) ELSE DefaultMargin
        minY == IF roi # Null THEN MaxInt(0, roi.y) ELSE DefaultMargin
        maxX == IF roi # Null THEN MinInt(width, roi.x + roi.w) ELSE width - DefaultMargin
        maxY == IF roi # Null THEN MinInt(height, roi.y + roi.h) ELSE height - DefaultMargin
        nx == GridCount(minX, maxX)
        ny == GridCount(minY, maxY)
        cell(k) == Vec(minX + ((k - 1) % nx) * step, minY + ((k - 1) \div nx) * step)
        cells == [k \in 1 .. (nx * ny) |-> cell(k)]
        bright(c) == imgData[c.y * width + c.x] > threshold
        hits == SelectSeq(cells, bright)
    IN  [k \in 1 .. Len(hits) |->
            [id |-> <<"auto", hits[k].x, hits[k].y>>,
             initial |-> hits[k],
             current |-> hits[k],
             velocity |-> Vec(0, 0),
             strain |-> 0]]

(* SAD block matching.  The offsets are scanned dy outer, dx inner, from   *)
(* -halfSearch in steps of 2; a candidate replaces the best one only when  *)
(* its SAD is strictly smaller.  minSAD = -1 stands for Infinity.          *)
BlockSAD(prev, curr, tx, ty, cx, cy, blockSize) ==
    SumSeq([k \in 1 .. (blockSize * blockSize) |->
        LET bx == (k - 1) % blockSize
            by == (k - 1) \div blockSize
        IN  Abs(PixelAt(prev, tx + bx, ty + by) - PixelAt(curr, cx + bx, cy + by))])

SearchOffsets(halfSearch) ==
    LET m == halfSearch + 1
        axis == [k \in 1 .. m |-> -halfSearch + 2 * (k - 1)]
    IN  [k \in 1 .. (m * m) |-> Vec(axis[((k - 1) % m) + 1], axis[((k - 1) \div m) + 1])]

RECURSIVE ScanOffsets(_, _, _, _, _, _, _, _, _)
ScanOffsets(prev, curr, px, py, blockSize, offsets, k, minSAD, bestOffset) ==
    IF k > Len(offsets) THEN bestOffset
    ELSE LET halfBlock == blockSize \div 2
             cx == px + offsets[k].x - halfBlock
             cy == py + offsets[k].y - halfBlock
         IN  IF cx < 0 \/ cy < 0 \/ cx + blockSize > Width \/ cy + blockSize > Height
             THEN ScanOffsets(prev, curr, px, py, blockSize, offsets, k + 1, minSAD, bestOffset)
             ELSE LET sad == BlockSAD(prev, curr, px - halfBlock, py - halfBlock, cx, cy, blockSize)
                  IN  IF minSAD = -1 \/ sad < minSAD
                      THEN ScanOffsets(prev, curr, px, py, blockSize, offsets, k + 1, sad, offsets[k])
                      ELSE ScanOffsets(prev, curr, px, py, blockSize, offsets, k + 1, minSAD, bestOffset)

(* a faulty tracker without bounds checks: the last offset of the scan *)
trackSpeckleUnbounded(prev, curr, point, blockSize, searchWindow) ==
    Vec(point.x + searchWindow \div 2, point.y + searchWindow \div 2)

(* a faulty guard: a point too close to the border is moved inside *)
trackSpeckleClamped(prev, curr, point, blockSize, searchWindow) ==
    LET halfBlock == blockSize \div 2
    IN  Vec(MaxInt(halfBlock, MinInt(Width - halfBlock - 1, point.x)),
            MaxInt(halfBlock, MinInt(Height - halfBlock - 1, point.y)))

trackSpeckle(prev, curr, point, blockSize, searchWindow) ==
    LET halfBlock == blockSize \div 2
        halfSearch == searchWindow \div 2
        px == point.x
        py == point.y
    IN  IF px - halfBlock < 0 \/ py - halfBlock < 0
           \/ px + halfBlock >= Width \/ py + halfBlock >= Height
        THEN point
        ELSE LET bestOffset == ScanOffsets(prev, curr, px, py, blockSize,
                                           SearchOffsets(halfSearch), 1, -1, Vec(0, 0))
             IN  Vec(point.x + bestOffset.x, point.y + bestOffset.y)

-----------------------------------------------------------------------------
(* Inputs: the clips a user can load and the places the mouse can be *)

MaxRuns == 2

MaxTabSwitches == 3

SpeckleFrame(spots, lo, hi) ==
    [i \in Pixels |-> IF Vec(i % Width, i \div Width) \in spots THEN hi ELSE lo]

(* 1: four speckles on a square; 2: the lower right one displaced outwards; *)
(* 3: the lower right one displaced inwards; 4: a uniform grey frame        *)
FrameLib ==
    << SpeckleFrame({Vec(1, 1), Vec(4, 1), Vec(1, 4), Vec(4, 4)}, 20, 220),
       SpeckleFrame({Vec(1, 1), Vec(4, 1), Vec(1, 4), Vec(6, 4)}, 0, 255),
       SpeckleFrame({Vec(1, 1), Vec(4, 1), Vec(1, 4), Vec(2, 4)}, 0, 255),
       SpeckleFrame({}, 90, 90) >>

Clips == { <<1, 2>>, <<1, 3>>, <<4>> }

LongClipLen == 102

LongClips == { [k \in 1 .. LongClipLen |-> 1] }

MouseDownCoords == { Vec(1, 1) }

MouseMoveCoords == { Vec(Width, Height) }

-----------------------------------------------------------------------------
(* src/App.tsx: state *)

FPS == 30

VARIABLES
    activeTab,      \* useState 'a4c' | 'a2c'
    isProcessing,   \* useState boolean
    analysis,       \* useState AnalysisResult | null
    vData,          \* useState: the two view sessions
    isDrawingRoi,   \* useState boolean
    roiStart,       \* useState {x, y} | null
    videoEl,        \* the one <video> element the page renders, or Null
    curr,           \* canvasRefs.curr: the current-frame raster
    prev,           \* canvasRefs.prev: the previous-frame raster
    pc,             \* the await at which runBiplaneAnalysis is suspended
    viewIdx,        \* runBiplaneAnalysis: index of the for-of loop over views
    closure,        \* runBiplaneAnalysis: the ROIs of the vData its closure captured
    runs,           \* history variable: batches started
    switches,       \* history variable: tab switches made
    runLog,         \* history variable: what the running batch did to each view
    appended,       \* history variable: samples appended since the history was cleared
    probe           \* the argument and result of a function applied on its own

appVars == << activeTab, isProcessing, analysis, vData, isDrawingRoi, roiStart, videoEl,
              curr, prev, pc, viewIdx, closure, runs, switches, runLog, appended >>

vars == << appVars, probe >>

InitView ==
    [gls |-> Num(0), ef |-> Num(0), maxArea |-> Num(0), minArea |-> Infinity,
     history |-> <<>>, points |-> <<>>, mask |-> Null, videoUrl |-> Null,
     roi |-> Null, isProcessed |-> FALSE, progress |-> Num(0)]

(* A media element that has just been given a source: nothing is loaded,   *)
(* currentTime is 0 and duration is NaN until the metadata arrives.        *)
(* shown is the frame the element displays: that of its last finished seek *)
FreshVideo == [ready |-> FALSE, currentTime |-> 0, shown |-> 0, seeking |-> FALSE]

(* per view: the <<tab, frame>> each tick of the batch drew, whether the    *)
(* batch marked the view processed, whether it skipped the view            *)
InitRunLog ==
    [v \in ViewSet |-> [drawn |-> <<>>, marked |-> FALSE, skipped |-> FALSE]]

InitApp ==
    /\ activeTab = "a4c"
    /\ isProcessing = FALSE
    /\ analysis = Null
    /\ vData = [v \in ViewSet |-> InitView]
    /\ isDrawingRoi = FALSE
    /\ roiStart = Null
    /\ videoEl = Null
    /\ curr = BlankRaster
    /\ prev = BlankRaster
    /\ pc = "idle"
    /\ viewIdx = 1
    /\ closure = [v \in ViewSet |-> Null]
    /\ runs = 0
    /\ switches = 0
    /\ runLog = InitRunLog
    /\ appended = [v \in ViewSet |-> <<>>]

Init == InitApp /\ probe = Null

(* videoRefs[view].current is an element: the page renders one <video>,    *)
(* for the active tab, and only when that view has a clip                  *)
HasVideoRef(view) == activeTab = view /\ vData[view].videoUrl # Null

(* the clip the element plays: src = vData[activeTab].videoUrl *)
VideoClip == vData[activeTab].videoUrl.clip

(* video.currentTime and video.duration of the element in state el, in     *)
(* seconds; the duration is NaN until the metadata is loaded               *)
CurrentTime(el) == Rat(el.currentTime, FPS)

DurationSeconds(el) == IF el.ready THEN Rat(Len(VideoClip), FPS) ELSE Rat(0, 0)

(* the frame drawImage(video) copies *)
VideoFrame(el) ==
    IF el.ready
    THEN FrameLib[VideoClip[MinInt(el.shown, Len(VideoClip) - 1) + 1]]
    ELSE BlankRaster

-----------------------------------------------------------------------------
(* src/App.tsx: user events *)

UNCHANGED_RUN == UNCHANGED << pc, viewIdx, closure, runs, runLog, probe >>

(* the tab buttons; the element gets the new tab's clip as its source *)
SetActiveTab(tab) ==
    /\ tab # activeTab
    /\ switches < MaxTabSwitches
    /\ activeTab' = tab
    /\ videoEl' = IF vData[tab].videoUrl # Null THEN FreshVideo ELSE Null
    /\ switches' = switches + 1
    /\ UNCHANGED << isProcessing, analysis, vData, isDrawingRoi, roiStart, curr, prev,
                    appended >>
    /\ UNCHANGED_RUN

(* the metadata and the first frame of the element's source arrive *)
LoadedData ==
    /\ videoEl # Null
    /\ ~videoEl.ready
    /\ videoEl' = [videoEl EXCEPT !.ready = TRUE, !.shown = 0]
    /\ UNCHANGED << activeTab, isProcessing, analysis, vData, isDrawingRoi, roiStart,
                    curr, prev, switches, appended >>
    /\ UNCHANGED_RUN

(* the file input is rendered for the active tab while it has no clip *)
handleFileChange(view, clips) ==
    /\ view = activeTab
    /\ vData[view].videoUrl = Null
    /\ \E clip \in clips :
          vData' = [vData EXCEPT ![view] =
                       [@ EXCEPT !.videoUrl = [clip |-> clip], !.isProcessed = FALSE,
                                 !.progress = Num(0), !.history = <<>>, !.points = <<>>,
                                 !.mask = Null]]
    /\ videoEl' = FreshVideo
    /\ appended' = [appended EXCEPT ![view] = <<>>]
    /\ UNCHANGED << activeTab, isProcessing, analysis, isDrawingRoi, roiStart, curr, prev,
                    switches >>
    /\ UNCHANGED_RUN

(* the ROI overlay is rendered over the video of the active tab *)
OverlayRendered == vData[activeTab].videoUrl # Null

handleMouseDown(coords) ==
    /\ OverlayRendered
    /\ ~isProcessing
    /\ roiStart' = coords
    /\ isDrawingRoi' = TRUE
    /\ UNCHANGED << activeTab, isProcessing, analysis, vData, videoEl, curr, prev,
                    switches, appended >>
    /\ UNCHANGED_RUN

handleMouseMove(coords) ==
    /\ OverlayRendered
    /\ isDrawingRoi
    /\ roiStart # Null
    /\ vData' = [vData EXCEPT ![activeTab].roi =
                    [x |-> MinInt(roiStart.x, coords.x), y |-> MinInt(roiStart.y, coords.y),
                     w |-> Abs(roiStart.x - coords.x), h |-> Abs(roiStart.y - coords.y)]]
    /\ UNCHANGED << activeTab, isProcessing, analysis, isDrawingRoi, roiStart, videoEl,
                    curr, prev, switches, appended >>
    /\ UNCHANGED_RUN

handleMouseUp ==
    /\ OverlayRendered
    /\ isDrawingRoi
    /\ isDrawingRoi' = FALSE
    /\ UNCHANGED << activeTab, isProcessing, analysis, vData, roiStart, videoEl, curr, prev,
                    switches, appended >>
    /\ UNCHANGED_RUN

-----------------------------------------------------------------------------
(* src/App.tsx: processFrame *)

TruncDiv(a, b) == Sign(a) * (Abs(a) \div b)

(* localStrain of a point at nextPos, in hundredths of a percent.          *)
(* c2 is twice the reference centre, so d4 is four times a squared         *)
(* distance and ISqrt(d4 * 10^6) is 2000 times the distance.               *)
localStrain(initial, nextPos, roi) ==
    LET c2x == IF roi # Null THEN 2 * roi.x + roi.w ELSE Width
        c2y == IF roi # Null THEN 2 * roi.y + roi.h ELSE Height
        d4Initial == (2 * initial.x - c2x) * (2 * initial.x - c2x)
                     + (2 * initial.y - c2y) * (2 * initial.y - c2y)
        d4Current == (2 * nextPos.x - c2x) * (2 * nextPos.x - c2x)
                     + (2 * nextPos.y - c2y) * (2 * nextPos.y - c2y)
        distInitial == ISqrt(d4Initial * 1000000)
        distCurrent == ISqrt(d4Current * 1000000)
        divisor == IF distInitial = 0 THEN 2000 ELSE distInitial
    IN  TruncDiv((distCurrent - divisor) * (-10000), divisor)

(* a faulty slice: keeps the oldest samples *)
SliceFirst100(h) == SubSeq(h, 1, MinInt(Len(h), HistoryCap))

(* [...history, sample].slice(-100) *)
Slice100(h) == IF Len(h) <= HistoryCap THEN h ELSE SubSeq(h, Len(h) - HistoryCap + 1, Len(h))

(* The value of a singleton set.  { F(v) : v \in {e} } evaluates e once,   *)
(* where a LET would evaluate it again at each use.                        *)
Only(S) == CHOOSE v \in S : TRUE

(* a faulty tracker: every tick anchors the point anew where it found it *)
TrackedPointsReanchored(viewData, prevCtx, currCtx) ==
    IF Len(viewData.points) = 0
    THEN autoDetectWalls(currCtx, Width, Height, viewData.roi)
    ELSE [k \in 1 .. Len(viewData.points) |->
            LET pt == viewData.points[k]
            IN  Only({ [pt EXCEPT !.current = nextPos, !.initial = nextPos,
                                  !.strain = localStrain(nextPos, nextPos, viewData.roi)] :
                       nextPos \in { trackSpeckle(prevCtx, currCtx, pt.current,
                                                  TrackBlockSize, TrackSearchWindow) } })]

(* a faulty updater: the seeds it detects are tracked on the same tick *)
TrackedPointsAtOnce(viewData, prevCtx, currCtx) ==
    LET seeds == IF Len(viewData.points) = 0
                 THEN autoDetectWalls(currCtx, Width, Height, viewData.roi)
                 ELSE viewData.points
    IN  [k \in 1 .. Len(seeds) |->
            Only({ [seeds[k] EXCEPT !.current = nextPos,
                                    !.strain = localStrain(seeds[k].initial, nextPos,
                                                           viewData.roi)] :
                   nextPos \in { trackSpeckle(prevCtx, currCtx, seeds[k].current,
                                              TrackBlockSize, TrackSearchWindow) } })]

(* the state updater of processFrame, applied to one view session *)
TrackedPoints(viewData, prevCtx, currCtx) ==
    IF Len(viewData.points) = 0
    THEN autoDetectWalls(currCtx, Width, Height, viewData.roi)
    ELSE [k \in 1 .. Len(viewData.points) |->
            LET pt == viewData.points[k]
            IN  Only({ [pt EXCEPT !.current = nextPos,
                                  !.strain = localStrain(pt.initial, nextPos, viewData.roi)] :
                       nextPos \in { trackSpeckle(prevCtx, currCtx, pt.current,
                                                  TrackBlockSize, TrackSearchWindow) } })]

AverageStrain(newPoints) ==
    TruncDiv(SumSeq([k \in 1 .. Len(newPoints) |-> newPoints[k].strain]),
             IF Len(newPoints) = 0 THEN 1 ELSE Len(newPoints))

(* a faulty update of the extrema: the minimum also takes an area of 0 *)
UpdatedViewAnyArea(viewData, currCtx, currentTime, duration, newPoints, area, avgStrain) ==
    [viewData EXCEPT
        !.points = newPoints,
        !.mask = createDiagnosticMask(currCtx, Width, Height, avgStrain, viewData.roi),
        !.maxArea = MathMax(viewData.maxArea, area),
        !.minArea = MathMin(viewData.minArea, area),
        !.history = Slice100(Append(viewData.history,
                                    [time |-> currentTime, strain |-> avgStrain])),
        !.progress = RMul(RDiv(currentTime, duration), Num(100))]

UpdatedView(viewData, currCtx, currentTime, duration, newPoints, area, avgStrain) ==
    [viewData EXCEPT
        !.points = newPoints,
        !.mask = createDiagnosticMask(currCtx, Width, Height, avgStrain, viewData.roi),
        !.maxArea = MathMax(viewData.maxArea, area),
        !.minArea = IF RLt(Num(0), area) THEN MathMin(viewData.minArea, area)
                    ELSE viewData.minArea,
        !.history = Slice100(Append(viewData.history,
                                    [time |-> currentTime, strain |-> avgStrain])),
        !.progress = RMul(RDiv(currentTime, duration), Num(100))]

ProcessedView(viewData, prevCtx, currCtx, currentTime, duration) ==
    Only({ Only({ UpdatedView(viewData, currCtx, currentTime, duration,
                              newPoints, area, avgStrain) :
                  area \in { calculateArea([k \in 1 .. Len(newPoints) |->
                                               newPoints[k].current]) },
                  avgStrain \in { AverageStrain(newPoints) } }) :
           newPoints \in { TrackedPoints(viewData, prevCtx, currCtx) } })

(* the sample processFrame appends, as ProcessedView computed it *)
LastSample(viewData) == viewData.history[Len(viewData.history)]

-----------------------------------------------------------------------------
(* src/App.tsx: runBiplaneAnalysis *)
(*                                                                         *)
(* The function runs between its awaits without interruption.  It waits at *)
(* pc = "seek" for the 'seeked' event and at pc = "wait" for the 10 ms     *)
(* timer; user events and media events happen only while it waits.         *)

(* the ejection fraction the batch stores when a view's walk ends *)
ViewEf(maxArea, minArea) ==
    IF RLt(Num(0), maxArea)
    THEN RMul(RDiv(RSub(maxArea, minArea), maxArea), Num(100))
    ELSE Num(0)

(* a faulty combination: the first view alone *)
BiplaneEfFirst(efA4c, efA2c) == efA4c

BiplaneEf(efA4c, efA2c) == RDiv(RAdd(efA4c, efA2c), Num(2))

(* Final Biplane Calculation *)
FinalAnalysis(finalData) ==
    [biplaneEf |-> BiplaneEf(finalData["a4c"].ef, finalData["a2c"].ef),
     a4c |-> finalData["a4c"],
     a2c |-> finalData["a2c"],
     hr |-> 74]

(* if (!video || !vData[view].roi) continue;                               *)
(* the index of the first view from index i on that the loop does not skip *)
RECURSIVE FirstWalkable(_, _)
FirstWalkable(i, rois) ==
    IF i > Len(Views) THEN i
    ELSE IF HasVideoRef(Views[i]) /\ rois[Views[i]] # Null THEN i
    ELSE FirstWalkable(i + 1, rois)

IndexOf(view) == CHOOSE k \in 1 .. Len(Views) : Views[k] = view

(* The for-of loop entered at view index i, with the sessions finalData,   *)
(* up to its next await: the views it skips, then either the seek to the   *)
(* start of the next view or the emission of the result.  Setting          *)
(* currentTime starts a seek only when the element has data.               *)
LoopFrom(i, rois, finalData, log, el) ==
    LET j == FirstWalkable(i, rois)
    IN  /\ viewIdx' = j
        /\ vData' = finalData
        /\ runLog' = [v \in ViewSet |->
                        IF IndexOf(v) >= i /\ IndexOf(v) < j
                        THEN [log[v] EXCEPT !.skipped = TRUE] ELSE log[v]]
        /\ IF j <= Len(Views)
           THEN /\ videoEl' = IF el.ready
                              THEN [el EXCEPT !.currentTime = 0, !.seeking = TRUE]
                              ELSE el
                /\ pc' = "seek"
                /\ isProcessing' = TRUE
                /\ analysis' = analysis
           ELSE /\ videoEl' = el
                /\ pc' = "idle"
                /\ isProcessing' = FALSE
                /\ analysis' = FinalAnalysis(finalData)

(* the button: disabled = isProcessing || !vData.a4c.roi || !vData.a2c.roi *)
StartBiplane ==
    /\ pc = "idle"
    /\ ~isProcessing
    /\ vData["a4c"].roi # Null
    /\ vData["a2c"].roi # Null
    /\ runs < MaxRuns
    /\ closure' = [v \in ViewSet |-> vData[v].roi]
    /\ runs' = runs + 1
    /\ LoopFrom(1, [v \in ViewSet |-> vData[v].roi], vData, InitRunLog, videoEl)
    /\ UNCHANGED << activeTab, isDrawingRoi, roiStart, curr, prev, switches, appended,
                    probe >>

(* the reverse order: the new frame is stored first and then copied *)
FillThenShift(frame) ==
    /\ curr' = frame
    /\ prev' = frame

(* Shift buffers: prevCtx.drawImage(curr, 0, 0), and then the current      *)
(* buffer gets the enhanced frame                                          *)
ShiftBuffers(frame) ==
    /\ prev' = curr
    /\ curr' = frame

(* one iteration of while (video.currentTime < video.duration):            *)
(* processFrame, video.currentTime += 1 / FPS, and the 10 ms wait begins;  *)
(* the state updater reads the two buffers as the shift left them          *)
WalkTick(view, el) ==
    /\ \E frame \in {enhanceContrast(VideoFrame(el))} : ShiftBuffers(frame)
    /\ \E next \in {ProcessedView(vData[view], prev', curr',
                                   CurrentTime(el), DurationSeconds(el))} :
           /\ vData' = [vData EXCEPT ![view] = next]
           /\ appended' = [appended EXCEPT ![view] = Append(@, LastSample(next))]
    /\ runLog' = [runLog EXCEPT ![view].drawn = Append(@, <<activeTab, el.shown>>)]
    /\ videoEl' = [el EXCEPT !.currentTime = MinInt(el.currentTime + 1, Len(VideoClip)),
                             !.seeking = TRUE]
    /\ pc' = "wait"
    /\ UNCHANGED << isProcessing, analysis, viewIdx >>

(* the loop condition fails: the view is marked processed, its ejection    *)
(* fraction is stored and the for-of loop goes on                          *)
FinishView(view, el) ==
    /\ LoopFrom(viewIdx + 1, closure,
                [vData EXCEPT ![view] =
                    [@ EXCEPT !.isProcessed = TRUE,
                              !.ef = ViewEf(vData[view].maxArea, vData[view].minArea)]],
                [runLog EXCEPT ![view].marked = TRUE],
                el)
    /\ UNCHANGED << curr, prev, appended >>

(* the batch resumes from an await, the element being in state el *)
Resume(el) ==
    /\ IF RLt(CurrentTime(el), DurationSeconds(el))
       THEN WalkTick(Views[viewIdx], el)
       ELSE FinishView(Views[viewIdx], el)
    /\ UNCHANGED << activeTab, isDrawingRoi, roiStart, closure, runs, switches, probe >>

(* the element finishes its seek and fires 'seeked': it shows the frame at *)
(* currentTime, and a batch that waits for the event resumes               *)
Seeked ==
    /\ videoEl # Null
    /\ videoEl.seeking
    /\ LET el == [videoEl EXCEPT !.seeking = FALSE, !.shown = videoEl.currentTime]
       IN  IF pc = "seek"
           THEN Resume(el)
           ELSE /\ videoEl' = el
                /\ UNCHANGED << activeTab, isProcessing, analysis, vData, isDrawingRoi,
                                roiStart, curr, prev, switches, appended >>
                /\ UNCHANGED_RUN

(* await new Promise(r => setTimeout(r, 10)) is over *)
TimerFired ==
    /\ pc = "wait"
    /\ videoEl # Null
    /\ Resume(videoEl)

-----------------------------------------------------------------------------
(* Specifications *)

UserEvent ==
    \/ \E tab \in ViewSet : SetActiveTab(tab)
    \/ \E view \in ViewSet : handleFileChange(view, Clips)
    \/ \E coords \in MouseDownCoords : handleMouseDown(coords)
    \/ \E coords \in MouseMoveCoords : handleMouseMove(coords)
    \/ handleMouseUp

Next ==
    \/ UserEvent
    \/ LoadedData
    \/ StartBiplane
    \/ Seeked
    \/ TimerFired

Spec == Init /\ [][Next]_vars

(* Long clips, for walks of more than HistoryCap ticks.  To keep the walks  *)
(* enumerable the tabs are left alone while a batch runs and every seek    *)
(* finishes within the 10 ms wait.                                         *)
SetActiveTabIdle(tab) == pc = "idle" /\ SetActiveTab(tab)

TimerFiredAfterSeek == videoEl # Null /\ ~videoEl.seeking /\ TimerFired

NextHist ==
    \/ \E tab \in ViewSet : SetActiveTabIdle(tab)
    \/ \E view \in ViewSet : handleFileChange(view, LongClips)
    \/ \E coords \in MouseDownCoords : handleMouseDown(coords)
    \/ \E coords \in MouseMoveCoords : handleMouseMove(coords)
    \/ handleMouseUp
    \/ LoadedData
    \/ StartBiplane
    \/ Seeked
    \/ TimerFiredAfterSeek

SpecHist == Init /\ [][NextHist]_vars

(* Clips that begin with frames in which detection finds no seed.  The     *)
(* tabs are left alone while a batch runs and every seek finishes within   *)
(* the 10 ms wait.                                                         *)
SeedlessStartClips == { << 4, 4, 1, 2 >>, << 4, 1 >> }

NextDetect ==
    \/ \E tab \in ViewSet : SetActiveTabIdle(tab)
    \/ \E view \in ViewSet : handleFileChange(view, SeedlessStartClips)
    \/ \E coords \in MouseDownCoords : handleMouseDown(coords)
    \/ \E coords \in MouseMoveCoords : handleMouseMove(coords)
    \/ handleMouseUp
    \/ LoadedData
    \/ StartBiplane
    \/ Seeked
    \/ TimerFiredAfterSeek

SpecDetect == Init /\ [][NextDetect]_vars

(* The mouse dragged to more than one place.  The tabs are left alone      *)
(* while a batch runs and every seek finishes within the 10 ms wait.       *)
DragCoords == { Vec(Width, Height), Vec(Width - 1, Height) }

DragClips == { << 1, 2 >> }

NextDrag ==
    \/ \E tab \in ViewSet : SetActiveTabIdle(tab)
    \/ \E view \in ViewSet : handleFileChange(view, DragClips)
    \/ \E coords \in MouseDownCoords : handleMouseDown(coords)
    \/ \E coords \in DragCoords : handleMouseMove(coords)
    \/ handleMouseUp
    \/ LoadedData
    \/ StartBiplane
    \/ Seeked
    \/ TimerFiredAfterSeek

SpecDrag == Init /\ [][NextDrag]_vars

(* The camera revision of the page adds a DISCARD button to a viewport     *)
(* that has a clip; the button is not disabled while a batch runs.         *)
Discard(view) ==
    /\ view = activeTab
    /\ vData[view].videoUrl # Null
    /\ vData' = [vData EXCEPT ![view] =
                    [@ EXCEPT !.videoUrl = Null, !.points = <<>>, !.mask = Null,
                              !.isProcessed = FALSE, !.ef = Num(0), !.history = <<>>]]
    /\ videoEl' = Null
    /\ appended' = [appended EXCEPT ![view] = <<>>]
    /\ UNCHANGED << activeTab, isProcessing, analysis, isDrawingRoi, roiStart, curr, prev,
                    switches >>
    /\ UNCHANGED_RUN

(* The page with the button.  To keep the runs enumerable the button and   *)
(* the tabs are left alone while a batch runs and every seek finishes      *)
(* within the 10 ms wait.                                                  *)
DiscardIdle(view) == pc = "idle" /\ Discard(view)

NextDiscard ==
    \/ \E tab \in ViewSet : SetActiveTabIdle(tab)
    \/ \E view \in ViewSet : handleFileChange(view, Clips)
    \/ \E coords \in MouseDownCoords : handleMouseDown(coords)
    \/ \E coords \in MouseMoveCoords : handleMouseMove(coords)
    \/ handleMouseUp
    \/ LoadedData
    \/ StartBiplane
    \/ Seeked
    \/ TimerFiredAfterSeek
    \/ \E view \in ViewSet : DiscardIdle(view)

SpecDiscard == Init /\ [][NextDiscard]_vars

(* setVData(prevData => ...) hands React an updater: React queues it and   *)
(* calls it when it next renders the component.  The updater of            *)
(* processFrame closes over the two canvas contexts, not over their        *)
(* pixels, so it reads the buffers as they are when it is called.  The     *)
(* render is a task of its own; the 10 ms timer of the frame loop does not *)
(* wait for it.  Here probe is the queue of updaters not yet called; each  *)
(* entry also records the buffers as its tick wrote them.                  *)
processFrameQueued(view, el) ==
    /\ \E frame \in {enhanceContrast(VideoFrame(el))} : ShiftBuffers(frame)
    /\ probe' = Append(probe, [view |-> view,
                               currentTime |-> CurrentTime(el),
                               duration |-> DurationSeconds(el),
                               wrote |-> << prev', curr' >>])
    /\ runLog' = [runLog EXCEPT ![view].drawn = Append(@, <<activeTab, el.shown>>)]
    /\ videoEl' = [el EXCEPT !.currentTime = MinInt(el.currentTime + 1, Len(VideoClip)),
                             !.seeking = TRUE]
    /\ pc' = "wait"
    /\ UNCHANGED << vData, appended, isProcessing, analysis, viewIdx >>

(* the queued updaters called in order, each on the state the one before   *)
(* returned, all reading the buffers as they are now                       *)
RECURSIVE ApplyUpdates(_, _)
ApplyUpdates(queue, state) ==
    IF Len(queue) = 0 THEN state
    ELSE LET u == queue[1]
         IN  ApplyUpdates(Tail(queue),
                Only({ [data |-> [state.data EXCEPT ![u.view] = next],
                        appended |-> [state.appended EXCEPT
                                         ![u.view] = Append(@, LastSample(next))]] :
                       next \in { ProcessedView(state.data[u.view], prev, curr,
                                                u.currentTime, u.duration) } }))

Render ==
    /\ Len(probe) > 0
    /\ \E state \in { ApplyUpdates(probe, [data |-> vData, appended |-> appended]) } :
          /\ vData' = state.data
          /\ appended' = state.appended
    /\ probe' = << >>
    /\ UNCHANGED << activeTab, isProcessing, analysis, isDrawingRoi, roiStart, videoEl,
                    curr, prev, pc, viewIdx, closure, runs, switches, runLog >>

(* the batch resumes from an await; the completion of a view is taken up   *)
(* once the updaters of its ticks have been called                         *)
ResumeQueued(el) ==
    /\ IF RLt(CurrentTime(el), DurationSeconds(el))
       THEN processFrameQueued(Views[viewIdx], el)
       ELSE /\ Len(probe) = 0
            /\ FinishView(Views[viewIdx], el)
            /\ UNCHANGED probe
    /\ UNCHANGED << activeTab, isDrawingRoi, roiStart, closure, runs, switches >>

SeekedQueued ==
    /\ videoEl # Null
    /\ videoEl.seeking
    /\ LET el == [videoEl EXCEPT !.seeking = FALSE, !.shown = videoEl.currentTime]
       IN  IF pc = "seek"
           THEN ResumeQueued(el)
           ELSE /\ videoEl' = el
                /\ UNCHANGED << activeTab, isProcessing, analysis, vData, isDrawingRoi,
                                roiStart, curr, prev, switches, appended >>
                /\ UNCHANGED_RUN

TimerFiredQueued ==
    /\ pc = "wait"
    /\ videoEl # Null
    /\ ResumeQueued(videoEl)

(* the user acts between batches only *)
UserEventIdle == pc = "idle" /\ UserEvent

InitQueue == InitApp /\ probe = << >>

NextQueue ==
    \/ UserEventIdle
    \/ LoadedData
    \/ StartBiplane
    \/ SeekedQueued
    \/ TimerFiredQueued
    \/ Render

SpecQueue == InitQueue /\ [][NextQueue]_vars

(* trackSpeckle applied on its own to a raster matched against itself *)
ProbeRasters == { FrameLib[k] : k \in 1 .. Len(FrameLib) }

ProbePoints == { Vec(x, y) : x \in 0 .. (Width - 1), y \in 0 .. (Height - 1) }

InitTrack ==
    /\ InitApp
    /\ probe \in { [raster |-> r, point |-> p, result |-> Null] :
                     r \in ProbeRasters, p \in ProbePoints }

TrackSame ==
    /\ probe.result = Null
    /\ probe' = [probe EXCEPT !.result = trackSpeckle(probe.raster, probe.raster, probe.point,
                                                       TrackBlockSize, TrackSearchWindow)]
    /\ UNCHANGED appVars

NextTrack == TrackSame

SpecTrack == InitTrack /\ [][NextTrack]_vars

(* trackSpeckle applied on its own to a previous and a current raster *)
InitMatch ==
    /\ InitApp
    /\ probe \in { [prev |-> p, curr |-> c, point |-> pt, result |-> Null] :
                     p \in ProbeRasters, c \in ProbeRasters, pt \in ProbePoints }

TrackPair ==
    /\ probe.result = Null
    /\ probe' = [probe EXCEPT !.result = trackSpeckle(probe.prev, probe.curr, probe.point,
                                                       TrackBlockSize, TrackSearchWindow)]
    /\ UNCHANGED appVars

NextMatch == TrackPair

SpecMatch == InitMatch /\ [][NextMatch]_vars

(* calculateArea applied on its own: to up to MaxAreaPoints distinct       *)
(* points of a small grid in every order, to the square of side 100 in     *)
(* every order, and to five points of which two, (1,1) and (1,2), lie on   *)
(* one ray from the centroid (1, 4/5), in every order                      *)
MaxAreaPoints == 4

AreaGrid == { Vec(x, y) : x \in 0 .. 2, y \in 0 .. 2 }

AreaSquare == << Vec(100, 100), Vec(200, 100), Vec(200, 200), Vec(100, 200) >>

AreaOnOneRay == << Vec(0, 0), Vec(0, 1), Vec(1, 1), Vec(1, 2), Vec(3, 0) >>

Reordered(points, f) == [i \in 1 .. Len(points) |-> points[f[i]]]

AreaInputs ==
    { q \in UNION { [1 .. n -> AreaGrid] : n \in 0 .. MaxAreaPoints } :
        \A i, j \in 1 .. Len(q) : q[i] = q[j] => i = j }
    \cup { Reordered(AreaSquare, f) : f \in Permutations(1 .. Len(AreaSquare)) }
    \cup { Reordered(AreaOnOneRay, f) : f \in Permutations(1 .. Len(AreaOnOneRay)) }

InitArea ==
    /\ InitApp
    /\ probe \in { [points |-> q, result |-> Null] : q \in AreaInputs }

AreaOf ==
    /\ probe.result = Null
    /\ probe' = [probe EXCEPT !.result = calculateArea(probe.points)]
    /\ UNCHANGED appVars

NextArea == AreaOf

SpecArea == InitArea /\ [][NextArea]_vars

(* localStrain applied on its own: to every pair of an initial and a       *)
(* tracked position in the frame, without a ROI (reference centre: the     *)
(* middle of the frame) and with ROIs whose centre is or is not a pixel    *)
StrainRois == { Null, [x |-> 1, y |-> 0, w |-> 6, h |-> 6], [x |-> 1, y |-> 1, w |-> 7, h |-> 5] }

InitStrain ==
    /\ InitApp
    /\ probe \in { [initial |-> p, nextPos |-> q, roi |-> r, result |-> Null] :
                     p \in ProbePoints, q \in ProbePoints, r \in StrainRois }

StrainOf ==
    /\ probe.result = Null
    /\ probe' = [probe EXCEPT !.result = [strain |-> localStrain(probe.initial, probe.nextPos,
                                                                 probe.roi)]]
    /\ UNCHANGED appVars

NextStrain == StrainOf

SpecStrain == InitStrain /\ [][NextStrain]_vars

(* The points branch of processFrame applied tick after tick to clips with *)
(* speckles at the border of the frame, for ROIs that reach or extend past *)
(* the frame edges on every side, or lie outside the frame altogether      *)
EdgeFrames ==
    << FrameLib[1],
       FrameLib[2],
       SpeckleFrame({Vec(0, 0), Vec(6, 3), Vec(7, 4), Vec(7, 1), Vec(4, 4)}, 0, 255),
       SpeckleFrame({Vec(0, 0), Vec(6, 5), Vec(7, 5), Vec(7, 1), Vec(4, 5)}, 0, 255) >>

EdgeClipLen == 3

EdgeClips == [1 .. EdgeClipLen -> 1 .. Len(EdgeFrames)]

EdgeRois ==
    { [x |-> -2, y |-> -2, w |-> 12, h |-> 10],
      [x |-> 1, y |-> 1, w |-> 20, h |-> 20],
      [x |-> 0, y |-> 0, w |-> Width, h |-> Height],
      [x |-> -3, y |-> 1, w |-> 5, h |-> 20],
      [x |-> 4, y |-> -1, w |-> 9, h |-> 3],
      [x |-> Width + 1, y |-> Height + 1, w |-> 3, h |-> 3] }

InitEdge ==
    /\ InitApp
    /\ probe \in { [clip |-> c, roi |-> r, ticks |-> 0, points |-> << >>] :
                     c \in EdgeClips, r \in EdgeRois }

EdgeTick ==
    /\ probe.ticks < Len(probe.clip)
    /\ \E currCtx \in { enhanceContrast(EdgeFrames[probe.clip[probe.ticks + 1]]) } :
         \E prevCtx \in { IF probe.ticks = 0 THEN BlankRaster
                          ELSE enhanceContrast(EdgeFrames[probe.clip[probe.ticks]]) } :
            probe' = [probe EXCEPT
                        !.ticks = @ + 1,
                        !.points = TrackedPoints([points |-> probe.points, roi |-> probe.roi],
                                                 prevCtx, currCtx)]
    /\ UNCHANGED appVars

NextEdge == EdgeTick

SpecEdge == InitEdge /\ [][NextEdge]_vars

(* enhanceContrast applied on its own: to every uniform raster, to rasters *)
(* of up to three levels and to the frames of the library                  *)
ContrastLevels == { 0, 1, 100, 127, 128, 254, 255 }

UniformRaster(v) == [i \in Pixels |-> v]

ThreeLevelRaster(lo, mid, hi) ==
    [i \in Pixels |-> IF i % 5 = 0 THEN lo ELSE IF i % 5 = 3 THEN hi ELSE mid]

ContrastInputs ==
    { UniformRaster(v) : v \in 0 .. 255 }
    \cup { ThreeLevelRaster(lo, mid, hi) :
             lo \in ContrastLevels, mid \in ContrastLevels, hi \in ContrastLevels }
    \cup ProbeRasters

(* data[i] = data[i + 1] = data[i + 2] = v *)
Channels(raster) == [i \in Pixels |-> << raster[i], raster[i], raster[i] >>]

InitContrast ==
    /\ InitApp
    /\ probe \in { [data |-> r, result |-> Null] : r \in ContrastInputs }

Enhance ==
    /\ probe.result = Null
    /\ probe' = [probe EXCEPT !.result = Channels(enhanceContrast(probe.data))]
    /\ UNCHANGED appVars

NextContrast == Enhance

SpecContrast == InitContrast /\ [][NextContrast]_vars

(* ----------------------------------------------------------------------- *)
(* services/geminiService.ts: getClinicalInsights                          *)
(* ----------------------------------------------------------------------- *)

(* the tokens of a response text *)
(* "{", "}", ":", ",", null, or a word that is not JSON *)
Tok(t) == [t |-> t]
Str(s) == [t |-> "string", s |-> s]

Undefined == [undefined |-> TRUE]

(* the values JSON.parse returns: an object is its set of members *)
Object(members) == [json |-> "object", members |-> members]
JsonString(s) == [json |-> "string", s |-> s]
JsonNull == [json |-> "null"]

(* the members of a JSON object: string : string { , string : string } *)
RECURSIVE ParseMembers(_, _)
ParseMembers(toks, obj) ==
    IF Len(toks) < 3 \/ toks[1].t # "string" \/ toks[2] # Tok(":")
                     \/ toks[3].t # "string"
    THEN [threw |-> TRUE]
    ELSE LET merged == { m \in obj : m[1] # toks[1].s }
                           \cup { << toks[1].s, toks[3].s >> }
         IN  IF Len(toks) = 3 THEN [threw |-> FALSE, value |-> Object(merged)]
             ELSE IF toks[4] # Tok(",") THEN [threw |-> TRUE]
             ELSE ParseMembers(SubSeq(toks, 5, Len(toks)), merged)

(* JSON.parse: the value of a well-formed text, a SyntaxError otherwise;   *)
(* undefined is converted to the text "undefined", which is not JSON       *)
JSONParse(text) ==
    IF text = Undefined THEN [threw |-> TRUE]
    ELSE LET toks == text.toks
         IN  IF Len(toks) = 0 THEN [threw |-> TRUE]
             ELSE IF toks = << Tok("null") >> THEN [threw |-> FALSE, value |-> JsonNull]
             ELSE IF Len(toks) = 1 /\ toks[1].t = "string"
                  THEN [threw |-> FALSE, value |-> JsonString(toks[1].s)]
             ELSE IF toks[1] # Tok("{") \/ toks[Len(toks)] # Tok("}")
                  THEN [threw |-> TRUE]
             ELSE IF Len(toks) = 2 THEN [threw |-> FALSE, value |-> Object({})]
             ELSE ParseMembers(SubSeq(toks, 2, Len(toks) - 1), {})

Fallback ==
    Object({ << "observation",
                "AI analysis currently unavailable. Manual review required." >>,
             << "severity", "Moderate" >>,
             << "recommendation",
                "Please ensure stable internet connection and valid clinical data." >> })

Fulfilled(value) == [state |-> "fulfilled", value |-> value]
Rejected(error) == [state |-> "rejected", reason |-> error]

(* a variant without the catch block: the failure reaches the caller *)
SettleUncaught(outcome) ==
    IF outcome.state = "rejected" THEN [promise |-> outcome, logged |-> << >>]
    ELSE LET parsed == JSONParse(outcome.value.text)
         IN  IF parsed.threw
             THEN [promise |-> Rejected("SyntaxError"), logged |-> << >>]
             ELSE [promise |-> Fulfilled(parsed.value), logged |-> << >>]

(* try { response = await generateContent(..); return JSON.parse(..) }     *)
(* catch (error) { console.error(..); return fallback }                    *)
Settle(outcome) ==
    IF outcome.state = "rejected"
    THEN [promise |-> Fulfilled(Fallback), logged |-> << outcome.reason >>]
    ELSE LET parsed == JSONParse(outcome.value.text)
         IN  IF parsed.threw
             THEN [promise |-> Fulfilled(Fallback), logged |-> << "SyntaxError" >>]
             ELSE [promise |-> Fulfilled(parsed.value), logged |-> << >>]

Text(toks) == [toks |-> toks]

Insight(severity) ==
    << Tok("{"), Str("observation"), Tok(":"), Str("text"), Tok(","),
       Str("severity"), Tok(":"), Str(severity), Tok(","),
       Str("recommendation"), Tok(":"), Str("text"), Tok("}") >>

ResponseTexts ==
    { Text(Insight(sev)) : sev \in { "Normal", "Mild", "Moderate", "Severe" } }
    \cup { Undefined }
    \cup { Text(toks) : toks \in
             { << >>,
               << Tok("null") >>,
               << Str("text") >>,
               << Tok("{"), Tok("}") >>,
               << Tok("{"), Str("severity"), Tok(":"), Str("Severe"), Tok("}") >>,
               << Tok("{"), Str("severity"), Tok(":"), Str("Severe") >>,
               << Tok("{"), Str("severity"), Tok(":"), Str("Severe"), Tok(","), Tok("}") >>,
               << Tok("{"), Str("severity"), Str("Severe"), Tok("}") >>,
               << Tok("word"), Tok("word"), Tok("{"), Str("severity"), Tok(":"), Str("Severe"),
                  Tok("}") >> } }

RequestErrors == { "TypeError: Failed to fetch", "ApiError 400", "ApiError 429" }

InsightData ==
    { [gls |-> gls, ef |-> ef, hr |-> 74,
       segments |-> [basal |-> gls, mid |-> gls, apical |-> gls]] :
         gls \in { -20, 0 }, ef \in { 0, 55 } }

FrameBase64 == { Undefined, [base64 |-> "/9j/4AAQ"] }

(* the call up to its await: the prompt and the parts of the request *)
InitInsights ==
    /\ InitApp
    /\ probe \in { [prompt |-> << d.gls, d.ef, d.hr, d.segments.basal,
                                  d.segments.mid, d.segments.apical >>,
                     parts |-> IF f = Undefined THEN 1 ELSE 2,
                     outcome |-> Null, promise |-> Null, logged |-> << >>] :
                       d \in InsightData, f \in FrameBase64 }

Settled(outcome) ==
    /\ probe.outcome = Null
    /\ \E r \in { Settle(outcome) } :
          probe' = [probe EXCEPT !.outcome = outcome, !.promise = r.promise,
                                 !.logged = r.logged]
    /\ UNCHANGED appVars

RequestRejects == \E error \in RequestErrors : Settled(Rejected(error))

RequestResolves == \E text \in ResponseTexts : Settled(Fulfilled([text |-> text]))

NextInsights == RequestRejects \/ RequestResolves

SpecInsights == InitInsights /\ [][NextInsights]_vars

-----------------------------------------------------------------------------
(* Properties *)

(* C1: an AnalysisResult is emitted only when both views were walked to    *)
(* completion, that is when both sessions it combines are processed.       *)
C1_EmitsOnlyWhenBothProcessed ==
    analysis # Null => analysis.a4c.isProcessed /\ analysis.a2c.isProcessed

(* C2: in a batch every tick of a4c and the marking of a4c come before the *)
(* first tick of a2c: a step that ticks a2c finds a4c marked (or skipped), *)
(* and a step that ticks or marks a4c finds a2c untouched.                 *)
TicksView(v) == Len(runLog'[v].drawn) = Len(runLog[v].drawn) + 1

MarksView(v) == ~runLog[v].marked /\ runLog'[v].marked

C2_A4cBeforeA2c ==
    [][ /\ TicksView("a2c") => runLog["a4c"].marked \/ runLog["a4c"].skipped
        /\ (TicksView("a4c") \/ MarksView("a4c")) =>
              /\ runLog["a2c"].drawn = <<>>
              /\ ~runLog["a2c"].marked ]_vars

(* a batch has ticked a4c, marked it, and then ticked a2c *)
C2_BothViewsWalked ==
    /\ runLog["a4c"].drawn # <<>>
    /\ runLog["a4c"].marked
    /\ runLog["a2c"].drawn # <<>>

(* C3: the biplane EF of the emitted result is the arithmetic mean of the  *)
(* EFs of the two sessions it was emitted with; 60 and 50 give 55.         *)
C3_BiplaneEfIsMean ==
    /\ BiplaneEf(Num(60), Num(50)) = Num(55)
    /\ analysis # Null =>
          RMul(analysis.biplaneEf, Num(2)) = RAdd(analysis.a4c.ef, analysis.a2c.ef)

(* a result emitted from two sessions whose EFs differ and are not 0 *)
C3_EmittedFromDistinctEfs ==
    /\ analysis # Null
    /\ analysis.a4c.ef # analysis.a2c.ef
    /\ analysis.a4c.ef # Num(0)
    /\ analysis.a2c.ef # Num(0)

(* C4: the EF stored for a view when its walk completes lies in [20, 85]. *)
C4_ReportedEfInRange ==
    \A v \in ViewSet :
        vData[v].isProcessed => RLe(Num(20), vData[v].ef) /\ RLe(vData[v].ef, Num(85))

(* C5: a view that completes with maxArea = 0 reports the placeholder 55. *)
C5_ZeroMaxAreaReports55 ==
    \A v \in ViewSet :
        (vData[v].isProcessed /\ vData[v].maxArea = Num(0)) => vData[v].ef = Num(55)

(* C6: a batch does not skip a view and then emit a biplane result: a     *)
(* finished batch that emitted a result skipped no view.                   *)
C6_NoResultAfterSkippedView ==
    (pc = "idle" /\ runs > 0 /\ analysis # Null) =>
        \A v \in ViewSet : ~runLog[v].skipped

(* C7: the history of a view is the last min(100, n) of the n samples      *)
(* appended since it was cleared, in append order.                         *)
LastAppended(samples, n) ==
    [k \in 1 .. MinInt(n, Len(samples)) |->
        samples[Len(samples) - MinInt(n, Len(samples)) + k]]

C7_HistoryIsLast100Appended ==
    \A v \in ViewSet :
        /\ Len(vData[v].history) <= 100
        /\ vData[v].history = LastAppended(appended[v], 100)

(* a view to which more than 100 samples were appended *)
C7_MoreThan100Appended == \E v \in ViewSet : Len(appended[v]) > 100

(* C8: no step decreases a view's maxArea or increases its minArea.        *)
C8_ExtremaMonotone ==
    [][ \A v \in ViewSet :
           /\ RLe(vData[v].maxArea, vData'[v].maxArea)
           /\ RLe(vData'[v].minArea, vData[v].minArea) ]_vars

(* a view whose ticks measured at least two different positive areas *)
C8_ExtremaMoved ==
    \E v \in ViewSet :
        /\ RLt(Num(0), vData[v].minArea)
        /\ RLt(vData[v].minArea, vData[v].maxArea)

(* C9: the n-th tick of a view draws the frame of that view's clip at time *)
(* (n - 1) / FPS: frames 0, 1, 2, ... in order, each exactly once.         *)
C9_TicksDrawConsecutiveFrames ==
    \A v \in ViewSet :
        \A n \in 1 .. Len(runLog[v].drawn) : runLog[v].drawn[n] = <<v, n - 1>>

(* C10: matched against itself, a raster leaves unchanged every point      *)
(* whose template block lies inside it.                                    *)
TemplateInside(point, blockSize) ==
    /\ point.x - blockSize \div 2 >= 0
    /\ point.y - blockSize \div 2 >= 0
    /\ point.x - blockSize \div 2 + blockSize <= Width
    /\ point.y - blockSize \div 2 + blockSize <= Height

C10_IdenticalRastersNoDisplacement ==
    (probe # Null /\ probe.result # Null /\ TemplateInside(probe.point, TrackBlockSize)) =>
        probe.result = probe.point

OffsetAxis(searchWindow) ==
    { -(searchWindow \div 2) + 2 * k : k \in 0 .. (searchWindow \div 2) }

CandidateInside(point, offset, blockSize) ==
    TemplateInside(Vec(point.x + offset.x, point.y + offset.y), blockSize)

SadAt(prevRaster, currRaster, point, offset, blockSize) ==
    LET left == point.x - blockSize \div 2
        top == point.y - blockSize \div 2
    IN  SumSeq([k \in 1 .. (blockSize * blockSize) |->
            Abs(prevRaster[(top + (k - 1) \div blockSize) * Width
                           + left + ((k - 1) % blockSize)]
                - currRaster[(top + offset.y + (k - 1) \div blockSize) * Width
                             + left + offset.x + ((k - 1) % blockSize)])])

ScannedBefore(o1, o2) == o1.y < o2.y \/ (o1.y = o2.y /\ o1.x < o2.x)

IsBestOffset(prevRaster, currRaster, point, offset, blockSize, searchWindow) ==
    /\ CandidateInside(point, offset, blockSize)
    /\ \A dx \in OffsetAxis(searchWindow), dy \in OffsetAxis(searchWindow) :
          CandidateInside(point, Vec(dx, dy), blockSize) =>
             LET mine == SadAt(prevRaster, currRaster, point, offset, blockSize)
                 other == SadAt(prevRaster, currRaster, point, Vec(dx, dy), blockSize)
             IN  \/ mine < other
                 \/ mine = other /\ (offset = Vec(dx, dy) \/ ScannedBefore(offset, Vec(dx, dy)))

C12_ResultIsFirstMinimalSadOffset ==
    (probe # Null /\ probe.result # Null /\ TemplateInside(probe.point, TrackBlockSize)) =>
        \E dx \in OffsetAxis(TrackSearchWindow), dy \in OffsetAxis(TrackSearchWindow) :
            /\ IsBestOffset(probe.prev, probe.curr, probe.point, Vec(dx, dy),
                            TrackBlockSize, TrackSearchWindow)
            /\ probe.result = Vec(probe.point.x + dx, probe.point.y + dy)

(* C13: a tracked point that is farther from the reference centre than    *)
(* its initial position has positive strain, one that is nearer has        *)
(* negative strain.  FourSquaredDistance is four times the squared         *)
(* distance to the centre of the ROI (of the frame when there is no ROI).  *)
FourSquaredDistance(p, roi) ==
    LET c2x == IF roi # Null THEN 2 * roi.x + roi.w ELSE Width
        c2y == IF roi # Null THEN 2 * roi.y + roi.h ELSE Height
    IN  (2 * p.x - c2x) * (2 * p.x - c2x) + (2 * p.y - c2y) * (2 * p.y - c2y)

C13_FartherIsPositiveNearerIsNegative ==
    \A v \in ViewSet :
        \A k \in 1 .. Len(vData[v].points) :
            LET pt == vData[v].points[k]
                now == FourSquaredDistance(pt.current, vData[v].roi)
                initially == FourSquaredDistance(pt.initial, vData[v].roi)
            IN  /\ now > initially => pt.strain > 0
                /\ now < initially => pt.strain < 0

(* C14: calculateArea is 0 for 0, 1 or 2 points.                          *)
C14_FewerThanThreePointsIsZero ==
    (probe # Null /\ probe.result # Null /\ Len(probe.points) < 3) => probe.result = Num(0)

(* the area of two points was computed *)
C14_TwoPointsMeasured ==
    probe # Null /\ probe.result # Null /\ Len(probe.points) = 2

(* C15: calculateArea gives the same value for every order of the same     *)
(* points, and 10000 for the square (100,100),(200,100),(200,200),         *)
(* (100,200) in each of its 24 orders.                                     *)
C15_AreaIsOrderIndependent ==
    (probe # Null /\ probe.result # Null) =>
        /\ \A f \in Permutations(1 .. Len(probe.points)) :
              calculateArea(Reordered(probe.points, f)) = probe.result
        /\ { probe.points[i] : i \in 1 .. Len(probe.points) }
             = { AreaSquare[i] : i \in 1 .. Len(AreaSquare) }
           => probe.result = Num(10000)

(* C16: on a raster with minimum m and maximum M > m every pixel that     *)
(* held m becomes 0 and every pixel that held M becomes 255, in red,       *)
(* green and blue.                                                         *)
C16_MinToZeroMaxTo255 ==
    (probe # Null /\ probe.result # Null) =>
        LET m == MinOf({ probe.data[i] : i \in Pixels })
            M == MaxOf({ probe.data[i] : i \in Pixels })
        IN  M > m =>
              \A i \in Pixels :
                 /\ probe.data[i] = m => probe.result[i] = << 0, 0, 0 >>
                 /\ probe.data[i] = M => probe.result[i] = << 255, 255, 255 >>

(* a raster of three levels, none of them 0 or 255, was stretched *)
C16_InnerLevelsStretched ==
    /\ probe # Null
    /\ probe.result # Null
    /\ MinOf({ probe.data[i] : i \in Pixels }) > 0
    /\ MaxOf({ probe.data[i] : i \in Pixels }) < 255
    /\ Cardinality({ probe.data[i] : i \in Pixels }) = 3

(* C17: a uniform raster of value v stays at v.                            *)
C17_UniformRasterUnchanged ==
    (probe # Null /\ probe.result # Null) =>
        \A v \in 0 .. 255 :
            probe.data = UniformRaster(v) => probe.result = Channels(UniformRaster(v))

(* C18: whenever the advisory request fails or its response text cannot   *)
(* be parsed, getClinicalInsights resolves to the fixed fallback payload,  *)
(* whose severity is Moderate; it never rejects.                           *)
C18_FailureResolvesToFallback ==
    (probe # Null /\ probe.outcome # Null) =>
        /\ probe.promise.state = "fulfilled"
        /\ (\/ probe.outcome.state = "rejected"
            \/ JSONParse(probe.outcome.value.text).threw) =>
              /\ probe.promise.value = Fallback
              /\ << "severity", "Moderate" >> \in probe.promise.value.members

(* the request resolved with a text that is cut short, and the call settled *)
C18_TruncatedTextSettled ==
    /\ probe # Null
    /\ probe.outcome # Null
    /\ probe.outcome.state = "fulfilled"
    /\ probe.outcome.value.text =
          Text(<< Tok("{"), Str("severity"), Tok(":"), Str("Severe") >>)
    /\ probe.promise # Null

(* C19: a started batch always finishes.  The batch is resumed from its    *)
(* wait for 'seeked' only by an element that finishes a seek, so a batch   *)
(* that finishes is never waiting for 'seeked' while no seek is in         *)
(* progress: from such a state isProcessing stays set for ever and no       *)
(* result is emitted.                                                      *)
C19_SeekWaitHasSeekInProgress ==
    pc = "seek" => (videoEl # Null /\ videoEl.seeking)

(* C20: a tick copies into the previous-frame buffer what the current-    *)
(* frame buffer held when the tick began and only then stores the enhanced *)
(* frame it draws in the current-frame buffer; the tracker is given these  *)
(* two buffers, and nothing but a tick writes them.  So from the second    *)
(* tick of a view on the tracker compares the frame the tick before drew   *)
(* with the frame this tick draws.                                         *)
TickOf(v) == Len(runLog'[v].drawn) = Len(runLog[v].drawn) + 1

DrawnFrame(v) ==
    LET drawn == runLog'[v].drawn
    IN  enhanceContrast(VideoFrame([videoEl EXCEPT !.shown = drawn[Len(drawn)][2]]))

C21_ProcessedViewIsFrozen ==
    [][\A v \in ViewSet :
          (vData[v].isProcessed /\ vData'[v].isProcessed) =>
              /\ vData'[v].ef = vData[v].ef
              /\ vData'[v].points = vData[v].points
              /\ vData'[v].history = vData[v].history
              /\ vData'[v].maxArea = vData[v].maxArea
              /\ vData'[v].minArea = vData[v].minArea]_vars

(* C22: a reset of a view session (a step that replaces or removes its     *)
(* frame source) leaves the session with no ROI, no points, an empty       *)
(* history, maxArea 0, minArea unset and no mask.                          *)
C22_ResetLeavesIdle ==
    [][\A v \in ViewSet :
          vData'[v].videoUrl # vData[v].videoUrl =>
              /\ vData'[v].roi = Null
              /\ vData'[v].points = <<>>
              /\ vData'[v].history = <<>>
              /\ vData'[v].maxArea = Num(0)
              /\ vData'[v].minArea = Infinity
              /\ vData'[v].mask = Null]_vars

(* C23: a tick is atomic with respect to the next one: as long as the      *)
(* session update of a tick has not been applied, the previous and current *)
(* frame buffers are as that tick wrote them.                              *)
C23_PendingUpdateReadsItsOwnBuffers ==
    \A k \in 1 .. Len(probe) : probe[k].wrote = << prev, curr >>

(* C24: a step that leaves a view with points, and found it with points,   *)
(* keeps their number and order and the id, initial and velocity of each   *)
(* one: a tracking tick changes current and strain only.                   *)
C24_TrackingKeepsIdentity ==
    [][\A v \in ViewSet :
          (Len(vData[v].points) > 0 /\ Len(vData'[v].points) > 0) =>
              /\ Len(vData'[v].points) = Len(vData[v].points)
              /\ \A k \in 1 .. Len(vData[v].points) :
                    /\ vData'[v].points[k].id = vData[v].points[k].id
                    /\ vData'[v].points[k].initial = vData[v].points[k].initial
                    /\ vData'[v].points[k].velocity = vData[v].points[k].velocity]_vars

(* a tracking tick has moved a point away from where detection placed it *)
C24_PointMovedFromInitial ==
    \E v \in ViewSet :
        \E k \in 1 .. Len(vData[v].points) :
            /\ vData[v].points[k].current # vData[v].points[k].initial
            /\ vData[v].points[k].id =
                  << "auto", vData[v].points[k].initial.x, vData[v].points[k].initial.y >>

(* C25: a tick on a view with no points sets the points to what wall       *)
(* detection finds in the new frame, untracked (current = initial, strain  *)
(* 0); when detection finds nothing the view keeps zero points, the tick   *)
(* still completes with a sample of strain 0 and area 0, and the next tick *)
(* detects again.                                                          *)
C25_ZeroPointsTickDetects ==
    [][\A v \in ViewSet :
          (TicksView(v) /\ Len(vData[v].points) = 0) =>
              /\ vData'[v].points = autoDetectWalls(curr', Width, Height, vData[v].roi)
              /\ \A k \in 1 .. Len(vData'[v].points) :
                    /\ vData'[v].points[k].current = vData'[v].points[k].initial
                    /\ vData'[v].points[k].strain = 0
              /\ Len(vData'[v].points) = 0 =>
                    /\ Len(appended'[v]) = Len(appended[v]) + 1
                    /\ LastSample(vData'[v]).strain = 0
                    /\ vData'[v].maxArea = vData[v].maxArea
                    /\ vData'[v].minArea = vData[v].minArea]_vars

(* two ticks of a walk found no seed and the third one did *)
C25_SeedsFoundOnThirdTick ==
    \E v \in ViewSet :
        /\ Len(runLog[v].drawn) = 3
        /\ Len(vData[v].history) >= 3
        /\ Len(vData[v].points) > 0
        /\ vData[v].videoUrl = [clip |-> << 4, 4, 1, 2 >>]

(* C26: the time stamps of a view's history never decrease from one sample *)
(* to the next.                                                            *)
C26_HistoryInTemporalOrder ==
    \A v \in ViewSet :
        \A k \in 1 .. (Len(vData[v].history) - 1) :
            RLe(vData[v].history[k].time, vData[v].history[k + 1].time)

(* C27: a point whose current position equals its initial position has    *)
(* strain 0, whatever the reference centre is.                             *)
C27_UnmovedPointHasZeroStrain ==
    (probe # Null /\ probe.result # Null /\ probe.nextPos = probe.initial) =>
        probe.result.strain = 0

(* C28: while a batch runs (isProcessing), the session of a view changes   *)
(* only through the batch's own steps: a step that is neither a tick nor a *)
(* completion of a view leaves ROI, points, history, extrema and frame     *)
(* source of both views as they are.                                       *)
C28_OnlyBatchChangesSessions ==
    [][(isProcessing /\ (\A v \in ViewSet : ~TicksView(v) /\ ~MarksView(v))) =>
          \A v \in ViewSet :
              /\ vData'[v].roi = vData[v].roi
              /\ vData'[v].points = vData[v].points
              /\ vData'[v].history = vData[v].history
              /\ vData'[v].maxArea = vData[v].maxArea
              /\ vData'[v].minArea = vData[v].minArea
              /\ vData'[v].videoUrl = vData[v].videoUrl]_vars

(* C29: in every state, for each view, maxArea is 0 exactly when minArea   *)
(* is still Infinity, and when maxArea > 0 then 0 < minArea <= maxArea and *)
(* (maxArea - minArea) / maxArea * 100 is a number in [0, 100).            *)
RawAreaChange(viewData) ==
    RMul(RDiv(RSub(viewData.maxArea, viewData.minArea), viewData.maxArea), Num(100))

C29_ExtremaConsistent ==
    \A v \in ViewSet :
        /\ IsFinite(vData[v].maxArea)
        /\ RLe(Num(0), vData[v].maxArea)
        /\ ~IsNaN(vData[v].minArea)
        /\ RLe(vData[v].maxArea, Num(0)) <=> vData[v].minArea = Infinity
        /\ RLt(Num(0), vData[v].maxArea) =>
              /\ RLt(Num(0), vData[v].minArea)
              /\ RLe(vData[v].minArea, vData[v].maxArea)
              /\ IsFinite(RawAreaChange(vData[v]))
              /\ RLe(Num(0), RawAreaChange(vData[v]))
              /\ RLt(RawAreaChange(vData[v]), Num(100))

(* one view was walked with areas of 0 only, the other one measured two    *)
(* different positive areas                                                *)
C29_ZeroAndPositiveAreasSeen ==
    \E v \in ViewSet, w \in ViewSet :
        /\ Len(vData[v].history) > 0
        /\ vData[v].minArea = Infinity
        /\ RLt(Num(0), vData[w].minArea)
        /\ RLt(vData[w].minArea, vData[w].maxArea)

(* C30: after any sequence of detection and tracking ticks the current     *)
(* position of every point lies inside the frame, for every ROI.           *)
InsideFrame(p) == 0 <= p.x /\ p.x < Width /\ 0 <= p.y /\ p.y < Height

C30_PointsStayInsideFrame ==
    probe # Null =>
        \A k \in 1 .. Len(probe.points) : InsideFrame(probe.points[k].current)

(* with a ROI that extends past the right and bottom edges, a point was    *)
(* tracked to the last row from which the tracker still searches           *)
C30_PointTrackedToBorder ==
    /\ probe # Null
    /\ probe.roi.x + probe.roi.w > Width
    /\ probe.roi.y + probe.roi.h > Height
    /\ \E k \in 1 .. Len(probe.points) :
          /\ probe.points[k].current # probe.points[k].initial
          /\ probe.points[k].current.y = Height - 1

=============================================================================
